---- MODULE Spec2Model ----
(***************************************************************************)
(* Tagged interval tree of src/taggedIntervalTree.js: a root node with     *)
(* tag null and, below it, nested tagged intervals.  The mutating          *)
(* operations addTag and removeTag are translated statement by statement   *)
(* into operators that take a node value and return the node value the     *)
(* JavaScript code leaves behind after mutating the object in place.       *)
(*                                                                         *)
(* A node is a record [interval |-> <<start, end>>, tag, children].        *)
(* JavaScript indexes are 0-based; interval[0] is interval[1] here and     *)
(* interval[1] is interval[2].  Child indexes are kept 0-based as in the   *)
(* source and turned into 1-based sequence positions at each access.       *)
(***************************************************************************)
EXTENDS Integers, Sequences, FiniteSets, TLC

\* ------------------------------------------------------------------------
\* Bounds of the model
\* ------------------------------------------------------------------------

\* The root is constructed as new TaggedIntervalTree(0, DocLen).
DocLen == 3


\* The number of addTag / removeTag calls made on one tree.
MaxCalls == 5

\* The labels the caller applies.
Tags == {"b", "i", "u"}

\* The tag of the root (null in the source).
NullTag == "null"

\* Arguments of addTag / removeTag: one position beyond each end of the root is
\* included, so that intervals reaching outside the root are exercised.
Positions == (0 - 1) .. (DocLen + 1)

\* The intervals [start, end] passed to the calls: every valid one, every empty
\* one and the ones inverted by one position.
Intervals == {iv \in Positions \X Positions : iv[1] <= iv[2] + 1}

Max(a, b) == IF a >= b THEN a ELSE b

Min(a, b) == IF a <= b THEN a ELSE b

\* ------------------------------------------------------------------------
\* Array helpers
\* ------------------------------------------------------------------------

\* Array.prototype.splice(index, deleteCount, ...items) with a 0-based index.
Splice(arr, index, deleteCount, items) ==
  SubSeq(arr, 1, index) \o items \o SubSeq(arr, index + deleteCount + 1, Len(arr))

\* Array.prototype.filter is SelectSeq of the Sequences module.

\* One step of a stable insertion sort on interval[0]: x goes after every
\* element whose start is <= x's start.
RECURSIVE InsertByStart(_, _)
\* A faulty variant of InsertByStart: the comparator written the wrong way
\* round, (a, b) => b.interval[0] - a.interval[0].
InsertByStartDescending(sorted, x) ==
  IF sorted = <<>> THEN <<x>>
  ELSE IF Head(sorted).interval[1] >= x.interval[1]
       THEN <<Head(sorted)>> \o InsertByStart(Tail(sorted), x)
       ELSE <<x>> \o sorted

InsertByStart(sorted, x) ==
  IF sorted = <<>> THEN <<x>>
  ELSE IF Head(sorted).interval[1] <= x.interval[1]
       THEN <<Head(sorted)>> \o InsertByStart(Tail(sorted), x)
       ELSE <<x>> \o sorted

\* children.sort((a, b) => a.interval[0] - b.interval[0]); Array.prototype.sort
\* is stable.
RECURSIVE SortByStart(_)
SortByStart(arr) ==
  IF arr = <<>> THEN <<>>
  ELSE InsertByStart(SortByStart(SubSeq(arr, 1, Len(arr) - 1)), arr[Len(arr)])

\* ------------------------------------------------------------------------
\* IntervalNode
\* ------------------------------------------------------------------------

IntervalNode(start, end, tag) ==
  [interval |-> <<start, end>>, tag |-> tag, children |-> <<>>]

\* ------------------------------------------------------------------------
\* _addTagDFS
\* ------------------------------------------------------------------------

RECURSIVE addTagDFS(_, _, _, _)
RECURSIVE addTagChildLoop(_, _, _, _, _, _)
RECURSIVE insertNewNodes(_, _, _, _)

\* The for loop over node.children (source lines 139-170).  The state of the
\* loop is the children (a child is changed in place by the recursive call),
\* the index i, currentPos and the insertPoints collected so far.
addTagChildLoop(children, i, currentPos, insertPoints, tag, end) ==
  IF ~(i < Len(children) /\ currentPos < end)
  THEN [children |-> children, currentPos |-> currentPos, insertPoints |-> insertPoints]
  ELSE
    LET child == children[i + 1]
        before == currentPos < child.interval[1]
        points1 == IF before
                   THEN Append(insertPoints,
                               [index |-> i, start |-> currentPos,
                                end |-> Min(end, child.interval[1])])
                   ELSE insertPoints
        pos1 == IF before THEN Min(end, child.interval[1]) ELSE currentPos
        overlaps == pos1 < child.interval[2]
        child2 == IF overlaps THEN addTagDFS(child, tag, pos1, end) ELSE child
        pos2 == IF overlaps THEN child2.interval[2] ELSE pos1
        hasNext == i + 1 < Len(children)
        gap == pos2 < end /\ hasNext /\ pos2 < children[i + 2].interval[1]
        points2 == IF gap
                   THEN Append(points1,
                               [index |-> i + 1, start |-> pos2,
                                end |-> Min(end, children[i + 2].interval[1])])
                   ELSE points1
        pos3 == IF gap THEN Min(end, children[i + 2].interval[1]) ELSE pos2
    IN addTagChildLoop([children EXCEPT ![i + 1] = child2], i + 1, pos3, points2, tag, end)

\* A faulty variant of insertNewNodes: the loop stops at i > 0 instead of
\* i >= 0, so that the first insert point gets no node.
insertNewNodesSkipsFirst(children, insertPoints, k, tag) ==
  IF k < 2 THEN children
  ELSE LET point == insertPoints[k]
       IN insertNewNodes(
            Splice(children, point.index, 0,
                   <<IntervalNode(point.start, point.end, tag)>>),
            insertPoints, k - 1, tag)

\* The reverse loop that splices one new node per insert point (lines 182-186);
\* k is the 1-based position of the insert point handled next.
insertNewNodes(children, insertPoints, k, tag) ==
  IF k < 1 THEN children
  ELSE LET point == insertPoints[k]
       IN insertNewNodes(
            Splice(children, point.index, 0,
                   <<IntervalNode(point.start, point.end, tag)>>),
            insertPoints, k - 1, tag)

\* A faulty variant of _addTagDFS: the test for a node that has the tag
\* already is missing, so that the call goes on below such a node.
addTagDFSIgnoresSameTag(node, tag, start0, end0) ==
  LET start == Max(start0, node.interval[1])
      end == Min(end0, node.interval[2])
  IN
  IF start >= end THEN node
  ELSE IF Len(node.children) = 0
  THEN [node EXCEPT !.children = <<IntervalNode(start, end, tag)>>]
  ELSE
    LET first == node.children[1]
        beforeFirst == start < first.interval[1]
        points0 == IF beforeFirst
                   THEN <<[index |-> 0, start |-> start,
                           end |-> Min(end, first.interval[1])]>>
                   ELSE <<>>
        pos0 == IF beforeFirst THEN Min(end, first.interval[1]) ELSE start
        loop == addTagChildLoop(node.children, 0, pos0, points0, tag, end)
        points == IF loop.currentPos < end
                  THEN Append(loop.insertPoints,
                              [index |-> Len(node.children),
                               start |-> loop.currentPos, end |-> end])
                  ELSE loop.insertPoints
    IN [node EXCEPT !.children = insertNewNodes(loop.children, points, Len(points), tag)]

\* _addTagDFS(node, tag, start, end): the node after the call.
addTagDFS(node, tag, start0, end0) ==
  LET start == Max(start0, node.interval[1])
      end == Min(end0, node.interval[2])
  IN
  IF start >= end THEN node
  ELSE IF node.tag = tag THEN node
  ELSE IF Len(node.children) = 0
  THEN [node EXCEPT !.children = <<IntervalNode(start, end, tag)>>]
  ELSE
    LET first == node.children[1]
        beforeFirst == start < first.interval[1]
        points0 == IF beforeFirst
                   THEN <<[index |-> 0, start |-> start,
                           end |-> Min(end, first.interval[1])]>>
                   ELSE <<>>
        pos0 == IF beforeFirst THEN Min(end, first.interval[1]) ELSE start
        loop == addTagChildLoop(node.children, 0, pos0, points0, tag, end)
        points == IF loop.currentPos < end
                  THEN Append(loop.insertPoints,
                              [index |-> Len(node.children),
                               start |-> loop.currentPos, end |-> end])
                  ELSE loop.insertPoints
    IN [node EXCEPT !.children = insertNewNodes(loop.children, points, Len(points), tag)]

\* ------------------------------------------------------------------------
\* _ensureTreeProperties
\* ------------------------------------------------------------------------

RECURSIVE ensureTreeProperties(_)
RECURSIVE mergeChildren(_, _, _, _)
RECURSIVE ensureChildLoop(_, _, _)

\* A faulty variant of NonEmptyInterval: the filter also drops the children
\* that hold one position only.
NonEmptyIntervalLongerThanOne(child) == child.interval[1] + 1 < child.interval[2]

NonEmptyInterval(child) == child.interval[1] < child.interval[2]

\* A faulty variant of mergeChildren: the loop ends after the first merge and
\* the siblings that follow are kept as they are.
mergeChildrenStopsAfterFirst(children, i, current, mergedChildren) ==
  IF ~(i < Len(children)) THEN Append(mergedChildren, current)
  ELSE
    LET next == children[i + 1]
    IN IF current.tag = next.tag /\ next.interval[1] <= current.interval[2]
       THEN Append(mergedChildren,
              [current EXCEPT !.interval[2] = Max(current.interval[2], next.interval[2]),
                              !.children = current.children \o next.children])
              \o SubSeq(children, i + 2, Len(children))
       ELSE mergeChildren(children, i + 1, next, Append(mergedChildren, current))

\* The merge loop (lines 483-501): current absorbs every following sibling with
\* the same tag that starts at or before current's end.
mergeChildren(children, i, current, mergedChildren) ==
  IF ~(i < Len(children)) THEN Append(mergedChildren, current)
  ELSE
    LET next == children[i + 1]
    IN IF current.tag = next.tag /\ next.interval[1] <= current.interval[2]
       THEN mergeChildren(children, i + 1,
              [current EXCEPT !.interval[2] = Max(current.interval[2], next.interval[2]),
                              !.children = current.children \o next.children],
              mergedChildren)
       ELSE mergeChildren(children, i + 1, next, Append(mergedChildren, current))

\* A faulty variant of ensureChildLoop: the child is not clamped to its parent
\* (lines 506-507 left out).
ensureChildLoopNoClamp(node, children, k) ==
  IF ~(k < Len(children)) THEN children
  ELSE
    LET child == children[k + 1]
        NotNodeTag(grandchild) == grandchild.tag # node.tag
    IN IF child.tag = node.tag
       THEN ensureChildLoop(node, children \o SelectSeq(child.children, NotNodeTag), k + 1)
       ELSE ensureChildLoop(node,
              [children EXCEPT ![k + 1] = ensureTreeProperties(child)], k + 1)

\* The for-of loop over node.children (lines 504-522).  The array iterator is
\* live: grandchildren pushed during the loop are visited by it too.
ensureChildLoop(node, children, k) ==
  IF ~(k < Len(children)) THEN children
  ELSE
    LET child == children[k + 1]
        clamped == [child EXCEPT
                      !.interval = <<Max(child.interval[1], node.interval[1]),
                                     Min(child.interval[2], node.interval[2])>>]
        NotNodeTag(grandchild) == grandchild.tag # node.tag
    IN IF clamped.tag = node.tag
       THEN ensureChildLoop(node,
              [children EXCEPT ![k + 1] = clamped] \o SelectSeq(clamped.children, NotNodeTag),
              k + 1)
       ELSE ensureChildLoop(node,
              [children EXCEPT ![k + 1] = ensureTreeProperties(clamped)],
              k + 1)

ensureTreeProperties(node) ==
  IF Len(node.children) = 0 THEN node
  ELSE
    LET sorted == SortByStart(node.children)
        nonEmpty == SelectSeq(sorted, NonEmptyInterval)
    IN IF Len(nonEmpty) = 0 THEN [node EXCEPT !.children = <<>>]
       ELSE
         LET merged == mergeChildren(nonEmpty, 1, nonEmpty[1], <<>>)
             processed == ensureChildLoop(node, merged, 0)
             OtherTag(child) == child.tag # node.tag
         IN [node EXCEPT !.children = SortByStart(SelectSeq(processed, OtherTag))]

\* ------------------------------------------------------------------------
\* addTag
\* ------------------------------------------------------------------------

\* A faulty variant of addTag: the root is widened to hold an interval that
\* ends beyond it.
addTagWidensRoot(tree, tag, start, end) ==
  IF start >= end THEN tree
  ELSE ensureTreeProperties(
         addTagDFS([tree EXCEPT !.interval[2] = Max(@, end)], tag, start, end))

\* The tree after tree.addTag(tag, [start, end]).
addTag(tree, tag, start, end) ==
  IF start >= end THEN tree
  ELSE ensureTreeProperties(addTagDFS(tree, tag, start, end))

\* ------------------------------------------------------------------------
\* _removeTagDFS
\* ------------------------------------------------------------------------

\* The result record of _removeTagDFS, together with the node as the call
\* leaves it (the source changes the node object in place).
Result(node, removed, state, remainingInterval, rehookNodeList) ==
  [node |-> node, removed |-> removed, state |-> state,
   remainingInterval |-> remainingInterval, rehookNodeList |-> rehookNodeList]

RECURSIVE removeTagDFS(_, _, _, _)
RECURSIVE insideChildLoop(_, _, _, _, _, _)
RECURSIVE leftChildLoop(_, _, _, _, _, _)
RECURSIVE rightChildLoop(_, _, _, _, _)
RECURSIVE entireChildLoop(_, _, _, _, _, _)
RECURSIVE processChildren(_, _, _, _, _, _, _, _)
RECURSIVE removeChildren(_, _, _)

\* for (let i = childrenToRemove.length - 1; i >= 0; i--)
\*   node.children.splice(childrenToRemove[i], 1);
\* (lines 321-323 and 361-363); k is the 1-based position handled next.
removeChildren(children, childrenToRemove, k) ==
  IF k < 1 THEN children
  ELSE removeChildren(Splice(children, childrenToRemove[k], 1, <<>>),
                      childrenToRemove, k - 1)

\* Case 1, the loop that sorts the children into beforeNodes, insideNodes,
\* afterNodes and rehookNodeList (lines 239-260).  acc.children are the
\* children as the recursive calls leave them.
insideChildLoop(children, k, tag, effectiveStart, effectiveEnd, acc) ==
  IF ~(k < Len(children)) THEN acc
  ELSE
    LET child == children[k + 1]
    IN IF child.interval[2] <= effectiveStart
       THEN insideChildLoop(children, k + 1, tag, effectiveStart, effectiveEnd,
              [acc EXCEPT !.beforeNodes = Append(@, child)])
       ELSE IF child.interval[1] >= effectiveEnd
       THEN insideChildLoop(children, k + 1, tag, effectiveStart, effectiveEnd,
              [acc EXCEPT !.afterNodes = Append(@, child)])
       ELSE
         LET childResult == removeTagDFS(child, tag, effectiveStart, effectiveEnd)
         IN IF childResult.state \in {"REMOVE-ENTIRE-NODE", "REMOVE-INTERVAL-INSIDE"}
            THEN insideChildLoop(children, k + 1, tag, effectiveStart, effectiveEnd,
                   [acc EXCEPT !.children[k + 1] = childResult.node,
                               !.rehookNodeList = @ \o childResult.rehookNodeList])
            ELSE insideChildLoop(children, k + 1, tag, effectiveStart, effectiveEnd,
                   [acc EXCEPT !.children[k + 1] = childResult.node,
                               !.insideNodes = Append(@, childResult.node)])

\* Case 2, the loop over node.children (lines 300-318).  The loop tests
\* i < node.children.length on every round, so the rehook nodes pushed onto
\* node.children are visited as well.
leftChildLoop(children, i, childrenToRemove, tag, effectiveStart, effectiveEnd) ==
  IF ~(i < Len(children))
  THEN [children |-> children, childrenToRemove |-> childrenToRemove]
  ELSE
    LET child == children[i + 1]
    IN IF child.interval[2] <= effectiveEnd
       THEN leftChildLoop(children, i + 1, Append(childrenToRemove, i),
                          tag, effectiveStart, effectiveEnd)
       ELSE IF child.interval[1] < effectiveEnd
       THEN
         LET childResult == removeTagDFS(child, tag, effectiveStart, effectiveEnd)
             children1 == [children EXCEPT ![i + 1] = childResult.node]
             AfterRemoval(rehookNode) == rehookNode.interval[1] >= effectiveEnd
         IN IF childResult.removed /\ childResult.state = "REMOVE-ENTIRE-NODE"
            THEN leftChildLoop(
                   children1 \o SelectSeq(childResult.rehookNodeList, AfterRemoval),
                   i + 1, Append(childrenToRemove, i), tag, effectiveStart, effectiveEnd)
            ELSE leftChildLoop(children1, i + 1, childrenToRemove,
                               tag, effectiveStart, effectiveEnd)
       ELSE leftChildLoop(children, i + 1, childrenToRemove,
                          tag, effectiveStart, effectiveEnd)

\* Case 3, the loop over node.children (lines 340-358).
rightChildLoop(children, i, childrenToRemove, tag, effectiveStart) ==
  IF ~(i < Len(children))
  THEN [children |-> children, childrenToRemove |-> childrenToRemove]
  ELSE
    LET child == children[i + 1]
    IN IF child.interval[1] >= effectiveStart
       THEN rightChildLoop(children, i + 1, Append(childrenToRemove, i),
                           tag, effectiveStart)
       ELSE IF child.interval[2] > effectiveStart
       THEN
         LET childResult == removeTagDFS(child, tag, effectiveStart, child.interval[2])
             children1 == [children EXCEPT ![i + 1] = childResult.node]
             BeforeRemoval(rehookNode) == rehookNode.interval[2] <= effectiveStart
         IN IF childResult.removed /\ childResult.state = "REMOVE-ENTIRE-NODE"
            THEN rightChildLoop(
                   children1 \o SelectSeq(childResult.rehookNodeList, BeforeRemoval),
                   i + 1, Append(childrenToRemove, i), tag, effectiveStart)
            ELSE rightChildLoop(children1, i + 1, childrenToRemove, tag, effectiveStart)
       ELSE rightChildLoop(children, i + 1, childrenToRemove, tag, effectiveStart)

\* Case 4, the loop that builds processedChildren (lines 377-392).
entireChildLoop(children, k, tag, effectiveStart, effectiveEnd, acc) ==
  IF ~(k < Len(children)) THEN acc
  ELSE
    LET child == children[k + 1]
    IN IF child.interval[1] < effectiveEnd /\ child.interval[2] > effectiveStart
       THEN
         LET childResult == removeTagDFS(child, tag, effectiveStart, effectiveEnd)
         IN IF childResult.removed
            THEN entireChildLoop(children, k + 1, tag, effectiveStart, effectiveEnd,
                   [acc EXCEPT !.children[k + 1] = childResult.node,
                               !.processedChildren = @ \o childResult.rehookNodeList])
            ELSE entireChildLoop(children, k + 1, tag, effectiveStart, effectiveEnd,
                   [acc EXCEPT !.children[k + 1] = childResult.node,
                               !.processedChildren = Append(@, childResult.node)])
       ELSE entireChildLoop(children, k + 1, tag, effectiveStart, effectiveEnd,
              [acc EXCEPT !.processedChildren = Append(@, child)])

\* A faulty variant of processChildren: removed = true (line 419) is left out,
\* so that the flag is set only by the call on the remaining interval.
processChildrenForgetsFlag(node, i, removed, tag, start, end, effectiveStart, effectiveEnd) ==
  IF ~(i < Len(node.children)) THEN [node |-> node, removed |-> removed]
  ELSE
    LET child == node.children[i + 1]
    IN IF effectiveEnd <= child.interval[1] \/ effectiveStart >= child.interval[2]
       THEN processChildren(node, i + 1, removed, tag, start, end,
                            effectiveStart, effectiveEnd)
       ELSE
         LET childResult == removeTagDFS(child, tag, start, end)
             node1 == [node EXCEPT !.children[i + 1] = childResult.node]
             replaced == childResult.state \in
                           {"REMOVE-ENTIRE-NODE", "REMOVE-INTERVAL-INSIDE"}
             node2 == IF replaced
                      THEN [node1 EXCEPT !.children =
                              Splice(node1.children, i, 1, childResult.rehookNodeList)]
                      ELSE node1
             i2 == IF replaced THEN i + Len(childResult.rehookNodeList) ELSE i + 1
             remaining == childResult.remainingInterval
             remainingResult == removeTagDFS(node2, tag, remaining[1], remaining[2])
             continues == remaining[1] < remaining[2]
         IN IF childResult.removed
            THEN processChildren(IF continues THEN remainingResult.node ELSE node2, i2,
                                 removed \/ (continues /\ remainingResult.removed),
                                 tag, start, end, effectiveStart, effectiveEnd)
            ELSE processChildren(node1, i + 1, removed, tag, start, end,
                                 effectiveStart, effectiveEnd)

\* The while loop of a node whose tag is not the one to remove (lines 407-453).
\* node carries the children as changed so far; the call on the remaining
\* interval is made on the same node and changes its children again.
processChildren(node, i, removed, tag, start, end, effectiveStart, effectiveEnd) ==
  IF ~(i < Len(node.children)) THEN [node |-> node, removed |-> removed]
  ELSE
    LET child == node.children[i + 1]
    IN IF effectiveEnd <= child.interval[1] \/ effectiveStart >= child.interval[2]
       THEN processChildren(node, i + 1, removed, tag, start, end,
                            effectiveStart, effectiveEnd)
       ELSE
         LET childResult == removeTagDFS(child, tag, start, end)
             node1 == [node EXCEPT !.children[i + 1] = childResult.node]
             replaced == childResult.state \in
                           {"REMOVE-ENTIRE-NODE", "REMOVE-INTERVAL-INSIDE"}
             node2 == IF replaced
                      THEN [node1 EXCEPT !.children =
                              Splice(node1.children, i, 1, childResult.rehookNodeList)]
                      ELSE node1
             i2 == IF replaced THEN i + Len(childResult.rehookNodeList) ELSE i + 1
             remaining == childResult.remainingInterval
             node3 == IF remaining[1] < remaining[2]
                      THEN removeTagDFS(node2, tag, remaining[1], remaining[2]).node
                      ELSE node2
         IN IF childResult.removed
            THEN processChildren(node3, i2, TRUE, tag, start, end,
                                 effectiveStart, effectiveEnd)
            ELSE processChildren(node1, i + 1, removed, tag, start, end,
                                 effectiveStart, effectiveEnd)

\* child.interval[0] = Math.max(child.interval[0], node.interval[0]);
\* child.interval[1] = Math.min(child.interval[1], node.interval[1]);
ClampChildren(node) ==
  [node EXCEPT !.children =
     [k \in 1 .. Len(node.children) |->
        [node.children[k] EXCEPT
           !.interval = <<Max(node.children[k].interval[1], node.interval[1]),
                          Min(node.children[k].interval[2], node.interval[2])>>]]]

\* A faulty variant of removeIntervalInside: the post-tag node is not given
\* the afterNodes.
removeIntervalInsideLosesAfterNodes(node, tag, end, effectiveStart, effectiveEnd) ==
  LET originalStart == node.interval[1]
      originalEnd == node.interval[2]
      acc == insideChildLoop(node.children, 0, tag, effectiveStart, effectiveEnd,
               [children |-> node.children, beforeNodes |-> <<>>,
                insideNodes |-> <<>>, afterNodes |-> <<>>, rehookNodeList |-> <<>>])
      preTagNode == [IntervalNode(originalStart, effectiveStart, tag)
                       EXCEPT !.children = acc.beforeNodes]
      postTagNode == IntervalNode(effectiveEnd, originalEnd, tag)
  IN Result([node EXCEPT !.children = acc.children], TRUE, "REMOVE-INTERVAL-INSIDE",
            <<end, end>>,
            acc.rehookNodeList \o <<preTagNode>> \o acc.insideNodes \o <<postTagNode>>)

\* Case 1 (lines 231-291): the removal lies inside the node, touching neither
\* end.  The node is split into a pre-tag and a post-tag node.
removeIntervalInside(node, tag, end, effectiveStart, effectiveEnd) ==
  LET originalStart == node.interval[1]
      originalEnd == node.interval[2]
      acc == insideChildLoop(node.children, 0, tag, effectiveStart, effectiveEnd,
               [children |-> node.children, beforeNodes |-> <<>>,
                insideNodes |-> <<>>, afterNodes |-> <<>>, rehookNodeList |-> <<>>])
      preTagNode == [IntervalNode(originalStart, effectiveStart, tag)
                       EXCEPT !.children = acc.beforeNodes]
      postTagNode == [IntervalNode(effectiveEnd, originalEnd, tag)
                        EXCEPT !.children = acc.afterNodes]
  IN Result([node EXCEPT !.children = acc.children], TRUE, "REMOVE-INTERVAL-INSIDE",
            <<end, end>>,
            acc.rehookNodeList \o <<preTagNode>> \o acc.insideNodes \o <<postTagNode>>)

\* A faulty variant of removeIntervalLeft: the interval just removed is
\* reported as the remaining interval.
removeIntervalLeftReportsRemoved(node, tag, end, effectiveStart, effectiveEnd) ==
  LET loop == leftChildLoop(node.children, 0, <<>>, tag, effectiveStart, effectiveEnd)
  IN Result([node EXCEPT
               !.interval[1] = effectiveEnd,
               !.children = removeChildren(loop.children, loop.childrenToRemove,
                                           Len(loop.childrenToRemove))],
            TRUE, "REMOVE-INTERVAL-LEFT", <<effectiveStart, end>>, <<>>)

\* Case 2 (lines 293-331): the removal covers the start of the node and ends
\* inside it.  The node's start moves to the end of the removal.
removeIntervalLeft(node, tag, end, effectiveStart, effectiveEnd) ==
  LET loop == leftChildLoop(node.children, 0, <<>>, tag, effectiveStart, effectiveEnd)
  IN Result([node EXCEPT
               !.interval[1] = effectiveEnd,
               !.children = removeChildren(loop.children, loop.childrenToRemove,
                                           Len(loop.childrenToRemove))],
            TRUE, "REMOVE-INTERVAL-LEFT", <<effectiveEnd, end>>, <<>>)

\* A faulty variant of removeIntervalRight: node.interval[1] = effectiveStart
\* (line 336) is left out.
removeIntervalRightKeepsEnd(node, tag, start, effectiveStart) ==
  LET loop == rightChildLoop(node.children, 0, <<>>, tag, effectiveStart)
  IN Result([node EXCEPT
               !.children = removeChildren(loop.children, loop.childrenToRemove,
                                           Len(loop.childrenToRemove))],
            TRUE, "REMOVE-INTERVAL-RIGHT", <<start, effectiveStart>>, <<>>)

\* Case 3 (lines 333-371): the removal starts inside the node and covers its
\* end.  The node's end moves to the start of the removal.
removeIntervalRight(node, tag, start, effectiveStart) ==
  LET loop == rightChildLoop(node.children, 0, <<>>, tag, effectiveStart)
  IN Result([node EXCEPT
               !.interval[2] = effectiveStart,
               !.children = removeChildren(loop.children, loop.childrenToRemove,
                                           Len(loop.childrenToRemove))],
            TRUE, "REMOVE-INTERVAL-RIGHT", <<start, effectiveStart>>, <<>>)

\* A faulty variant of removeEntireNode: the children of the node are not
\* handed back for re-hooking.
removeEntireNodeDropsChildren(node, tag, end, effectiveStart, effectiveEnd) ==
  Result(node, TRUE, "REMOVE-ENTIRE-NODE", <<effectiveEnd, end>>, <<>>)

\* Case 4 (lines 373-400): the removal covers the whole node.
removeEntireNode(node, tag, end, effectiveStart, effectiveEnd) ==
  LET acc == entireChildLoop(node.children, 0, tag, effectiveStart, effectiveEnd,
               [children |-> node.children, processedChildren |-> <<>>])
  IN Result([node EXCEPT !.children = acc.children], TRUE, "REMOVE-ENTIRE-NODE",
            <<effectiveEnd, end>>, acc.processedChildren)

removeTagDFS(node, tag, start, end) ==
  LET effectiveStart == Max(start, node.interval[1])
      effectiveEnd == Min(end, node.interval[2])
      originalStart == node.interval[1]
      originalEnd == node.interval[2]
  IN
  IF effectiveStart >= effectiveEnd
  THEN Result(node, FALSE, "NO_OVERLAP", <<start, end>>, <<>>)
  ELSE IF node.tag = tag
  THEN
    IF effectiveStart > originalStart /\ effectiveEnd < originalEnd
    THEN removeIntervalInside(node, tag, end, effectiveStart, effectiveEnd)
    ELSE IF effectiveStart <= originalStart /\ effectiveEnd < originalEnd
    THEN removeIntervalLeft(node, tag, end, effectiveStart, effectiveEnd)
    ELSE IF effectiveStart > originalStart /\ effectiveEnd >= originalEnd
    THEN removeIntervalRight(node, tag, start, effectiveStart)
    ELSE removeEntireNode(node, tag, end, effectiveStart, effectiveEnd)
  ELSE
    LET loop == processChildren(node, 0, FALSE, tag, start, end,
                                effectiveStart, effectiveEnd)
    IN Result(ClampChildren(loop.node), loop.removed, "PROCESSED_CHILDREN",
              <<Max(effectiveEnd, start), end>>, <<>>)

\* ------------------------------------------------------------------------
\* The child results that the while loop of _removeTagDFS receives
\* ------------------------------------------------------------------------

\* One round of the while loop (lines 407-453) in which the child reported
\* removed = true: the interval the node was called with, the state, the
\* remaining interval and the rehook list the child reported (lines 416-418),
\* and the node as it is when the removal is re-applied to it (lines 437-444).
ChildReport(node, start, end, childResult) ==
  [node |-> node, start |-> start, end |-> end, state |-> childResult.state,
   remainingInterval |-> childResult.remainingInterval,
   rehookNodeList |-> childResult.rehookNodeList]

RECURSIVE childReports(_, _, _, _)
RECURSIVE processChildrenReports(_, _, _, _, _, _, _)
RECURSIVE insideChildLoopReports(_, _, _, _, _)
RECURSIVE leftChildLoopReports(_, _, _, _, _)
RECURSIVE rightChildLoopReports(_, _, _, _)
RECURSIVE entireChildLoopReports(_, _, _, _, _)

\* The rounds of the while loop (lines 407-453) from index i on, with the
\* rounds of the calls made from it: the call on the child (line 416) and the
\* call on the same node with the remaining interval (lines 437-444).
processChildrenReports(node, i, tag, start, end, effectiveStart, effectiveEnd) ==
  IF ~(i < Len(node.children)) THEN {}
  ELSE
    LET child == node.children[i + 1]
    IN IF effectiveEnd <= child.interval[1] \/ effectiveStart >= child.interval[2]
       THEN processChildrenReports(node, i + 1, tag, start, end,
                                   effectiveStart, effectiveEnd)
       ELSE
         LET childResult == removeTagDFS(child, tag, start, end)
             node1 == [node EXCEPT !.children[i + 1] = childResult.node]
             replaced == childResult.state \in
                           {"REMOVE-ENTIRE-NODE", "REMOVE-INTERVAL-INSIDE"}
             node2 == IF replaced
                      THEN [node1 EXCEPT !.children =
                              Splice(node1.children, i, 1, childResult.rehookNodeList)]
                      ELSE node1
             i2 == IF replaced THEN i + Len(childResult.rehookNodeList) ELSE i + 1
             remaining == childResult.remainingInterval
             continues == remaining[1] < remaining[2]
             node3 == IF continues
                      THEN removeTagDFS(node2, tag, remaining[1], remaining[2]).node
                      ELSE node2
         IN childReports(child, tag, start, end)
              \cup (IF childResult.removed
                    THEN {ChildReport(node2, start, end, childResult)}
                           \cup (IF continues
                                 THEN childReports(node2, tag, remaining[1], remaining[2])
                                 ELSE {})
                           \cup processChildrenReports(node3, i2, tag, start, end,
                                                       effectiveStart, effectiveEnd)
                    ELSE processChildrenReports(node1, i + 1, tag, start, end,
                                                effectiveStart, effectiveEnd))

\* The rounds made below the calls of the loop of case 1 (lines 239-260).
insideChildLoopReports(children, k, tag, effectiveStart, effectiveEnd) ==
  IF ~(k < Len(children)) THEN {}
  ELSE
    LET child == children[k + 1]
        rest == insideChildLoopReports(children, k + 1, tag, effectiveStart, effectiveEnd)
    IN IF child.interval[2] <= effectiveStart \/ child.interval[1] >= effectiveEnd
       THEN rest
       ELSE childReports(child, tag, effectiveStart, effectiveEnd) \cup rest

\* The rounds made below the calls of the loop of case 2 (lines 300-318).
leftChildLoopReports(children, i, tag, effectiveStart, effectiveEnd) ==
  IF ~(i < Len(children)) THEN {}
  ELSE
    LET child == children[i + 1]
    IN IF child.interval[2] > effectiveEnd /\ child.interval[1] < effectiveEnd
       THEN
         LET childResult == removeTagDFS(child, tag, effectiveStart, effectiveEnd)
             children1 == [children EXCEPT ![i + 1] = childResult.node]
             AfterRemoval(rehookNode) == rehookNode.interval[1] >= effectiveEnd
         IN childReports(child, tag, effectiveStart, effectiveEnd)
              \cup leftChildLoopReports(
                     IF childResult.removed /\ childResult.state = "REMOVE-ENTIRE-NODE"
                     THEN children1 \o SelectSeq(childResult.rehookNodeList, AfterRemoval)
                     ELSE children1,
                     i + 1, tag, effectiveStart, effectiveEnd)
       ELSE leftChildLoopReports(children, i + 1, tag, effectiveStart, effectiveEnd)

\* The rounds made below the calls of the loop of case 3 (lines 340-358).
rightChildLoopReports(children, i, tag, effectiveStart) ==
  IF ~(i < Len(children)) THEN {}
  ELSE
    LET child == children[i + 1]
    IN IF child.interval[1] < effectiveStart /\ child.interval[2] > effectiveStart
       THEN
         LET childResult == removeTagDFS(child, tag, effectiveStart, child.interval[2])
             children1 == [children EXCEPT ![i + 1] = childResult.node]
             BeforeRemoval(rehookNode) == rehookNode.interval[2] <= effectiveStart
         IN childReports(child, tag, effectiveStart, child.interval[2])
              \cup rightChildLoopReports(
                     IF childResult.removed /\ childResult.state = "REMOVE-ENTIRE-NODE"
                     THEN children1 \o SelectSeq(childResult.rehookNodeList, BeforeRemoval)
                     ELSE children1,
                     i + 1, tag, effectiveStart)
       ELSE rightChildLoopReports(children, i + 1, tag, effectiveStart)

\* The rounds made below the calls of the loop of case 4 (lines 377-392).
entireChildLoopReports(children, k, tag, effectiveStart, effectiveEnd) ==
  IF ~(k < Len(children)) THEN {}
  ELSE
    LET child == children[k + 1]
        rest == entireChildLoopReports(children, k + 1, tag, effectiveStart, effectiveEnd)
    IN IF child.interval[1] < effectiveEnd /\ child.interval[2] > effectiveStart
       THEN childReports(child, tag, effectiveStart, effectiveEnd) \cup rest
       ELSE rest

\* Every round of a while loop, at any depth, made during
\* _removeTagDFS(node, tag, start, end) in which the child reported
\* removed = true.
childReports(node, tag, start, end) ==
  LET effectiveStart == Max(start, node.interval[1])
      effectiveEnd == Min(end, node.interval[2])
      originalStart == node.interval[1]
      originalEnd == node.interval[2]
  IN
  IF effectiveStart >= effectiveEnd THEN {}
  ELSE IF node.tag = tag
  THEN
    IF effectiveStart > originalStart /\ effectiveEnd < originalEnd
    THEN insideChildLoopReports(node.children, 0, tag, effectiveStart, effectiveEnd)
    ELSE IF effectiveStart <= originalStart /\ effectiveEnd < originalEnd
    THEN leftChildLoopReports(node.children, 0, tag, effectiveStart, effectiveEnd)
    ELSE IF effectiveStart > originalStart /\ effectiveEnd >= originalEnd
    THEN rightChildLoopReports(node.children, 0, tag, effectiveStart)
    ELSE entireChildLoopReports(node.children, 0, tag, effectiveStart, effectiveEnd)
  ELSE processChildrenReports(node, 0, tag, start, end, effectiveStart, effectiveEnd)

\* ------------------------------------------------------------------------
\* removeTag
\* ------------------------------------------------------------------------

\* The tree and the return value after tree.removeTag(tag, [start, end]).
removeTag(tree, tag, start, end) ==
  IF start >= end THEN [root |-> tree, removed |-> FALSE]
  ELSE LET result == removeTagDFS(tree, tag, start, end)
       IN [root |-> ensureTreeProperties(result.node), removed |-> result.removed]

\* ------------------------------------------------------------------------
\* hasTag
\* ------------------------------------------------------------------------

RECURSIVE checkTagDFS(_, _, _, _)
RECURSIVE checkTagChildLoop(_, _, _, _, _)

\* The loop of _checkTagDFS over node.children, from the child at index i
\* (0-based): a child that does not overlap [start, end) is skipped.
checkTagChildLoop(node, i, tag, start, end) ==
  IF i >= Len(node.children) THEN FALSE
  ELSE LET child == node.children[i + 1]
       IN IF end <= child.interval[1] \/ start >= child.interval[2]
          THEN checkTagChildLoop(node, i + 1, tag, start, end)
          ELSE IF checkTagDFS(child, tag, start, end) THEN TRUE
          ELSE checkTagChildLoop(node, i + 1, tag, start, end)

\* A faulty variant of checkTagDFS: the end of the node is not compared with
\* the end of the range.
checkTagDFSIgnoresEnd(node, tag, start, end) ==
  IF node.tag = tag /\ node.interval[1] <= start
  THEN TRUE
  ELSE checkTagChildLoop(node, 0, tag, start, end)

\* _checkTagDFS(node, tag, start, end)
checkTagDFS(node, tag, start, end) ==
  IF node.tag = tag /\ node.interval[1] <= start /\ node.interval[2] >= end
  THEN TRUE
  ELSE checkTagChildLoop(node, 0, tag, start, end)

\* What tree.hasTag(tag, [start, end]) returns.
hasTag(tree, tag, start, end) == checkTagDFS(tree, tag, start, end)

\* ------------------------------------------------------------------------
\* getFormattedText
\* ------------------------------------------------------------------------

\* A text is a sequence of one-character strings; the formatted text is a
\* sequence whose elements are those characters and the markers "<b>", "</b>".
Text(length) == [k \in 1 .. length |-> ToString((k - 1) % 10)]

\* The texts handed to getFormattedText: shorter than the root's range, of its
\* length, and longer.
Texts == {Text(length) : length \in 0 .. (DocLen + 1)}

Marker(position, tag, isOpening) ==
  [position |-> position, tag |-> tag, isOpening |-> isOpening]

RECURSIVE collectMarkers(_)
RECURSIVE collectChildMarkers(_, _)

\* The loop of collectMarkers over node.children, from the child at index i
\* (0-based).
collectChildMarkers(node, i) ==
  IF i >= Len(node.children) THEN <<>>
  ELSE collectMarkers(node.children[i + 1]) \o collectChildMarkers(node, i + 1)

\* The markers that collectMarkers(node) pushes, in the order of the pushes.
collectMarkers(node) ==
  (IF node.tag # NullTag
   THEN <<Marker(node.interval[1], node.tag, TRUE),
          Marker(node.interval[2], node.tag, FALSE)>>
   ELSE <<>>) \o collectChildMarkers(node, 0)

\* A faulty variant of compareMarkers: at one position the openings are put
\* before the closings.
compareMarkersOpeningFirst(a, b) ==
  IF a.position = b.position
  THEN (IF a.isOpening THEN 0 - 1 ELSE 1)
  ELSE a.position - b.position

\* The comparator handed to markers.sort.
compareMarkers(a, b) ==
  IF a.position = b.position
  THEN (IF a.isOpening THEN 1 ELSE 0 - 1)
  ELSE a.position - b.position

\* Array.prototype.sort. For two openings at one position, and for two
\* closings at one position, the comparator answers both "a after b" and "b
\* after a", and the order the sort then leaves is up to the engine. Two
\* insertion sorts stand for the engines: one asks comparefn(new, placed) in a
\* binary search over the elements placed so far, the other asks
\* comparefn(placed, new) walking back from the last placed element.
SortEngines == {"newFirst", "placedFirst"}

RECURSIVE binarySearch(_, _, _, _)
\* The index (0-based) at which the binary insertion places pivot.
binarySearch(sorted, left, right, pivot) ==
  IF left < right
  THEN LET mid == left + ((right - left) \div 2)
       IN IF compareMarkers(pivot, sorted[mid + 1]) < 0
          THEN binarySearch(sorted, left, mid, pivot)
          ELSE binarySearch(sorted, mid + 1, right, pivot)
  ELSE left

RECURSIVE walkBack(_, _, _)
\* The index (0-based) at which the walk back from index j places element.
walkBack(sorted, j, element) ==
  IF j >= 0 /\ compareMarkers(sorted[j + 1], element) > 0
  THEN walkBack(sorted, j - 1, element)
  ELSE j + 1

RECURSIVE sortLoop(_, _, _, _)
\* The insertion of arr[i], arr[i+1], ... (0-based) into sorted.
sortLoop(arr, i, sorted, engine) ==
  IF i >= Len(arr) THEN sorted
  ELSE LET element == arr[i + 1]
           index == IF engine = "newFirst"
                    THEN binarySearch(sorted, 0, Len(sorted), element)
                    ELSE walkBack(sorted, Len(sorted) - 1, element)
       IN sortLoop(arr, i + 1, Splice(sorted, index, 0, <<element>>), engine)

\* markers.sort(comparator) on the given engine.
sortMarkers(markers, engine) == sortLoop(markers, 0, <<>>, engine)

\* text.substring(indexStart, indexEnd): both indexes are clamped to the text
\* and swapped when the first is the greater.
substring(text, indexStart, indexEnd) ==
  LET from == Min(Max(indexStart, 0), Len(text))
      to == Min(Max(indexEnd, 0), Len(text))
  IN SubSeq(text, Min(from, to) + 1, Max(from, to))

\* The text of a marker in the output.
MarkerText(marker) ==
  IF marker.isOpening THEN "<" \o marker.tag \o ">" ELSE "</" \o marker.tag \o ">"

RECURSIVE insertTags(_, _, _, _, _)
RECURSIVE insertTagsDropsRest(_, _, _, _, _)

\* A faulty variant of insertTags: the text after the last marker is left out.
insertTagsDropsRest(text, markers, i, lastPosition, result) ==
  IF i >= Len(markers) THEN result
  ELSE LET marker == markers[i + 1]
       IN insertTagsDropsRest(text, markers, i + 1, marker.position,
                              result \o substring(text, lastPosition, marker.position)
                                     \o <<MarkerText(marker)>>)

\* The loop that builds the result from the sorted markers, from the marker at
\* index i (0-based), and the remaining text added after it.
insertTags(text, markers, i, lastPosition, result) ==
  IF i >= Len(markers) THEN result \o substring(text, lastPosition, Len(text))
  ELSE LET marker == markers[i + 1]
       IN insertTags(text, markers, i + 1, marker.position,
                     result \o substring(text, lastPosition, marker.position)
                            \o <<MarkerText(marker)>>)

\* What tree.getFormattedText(text) returns on the given engine.
getFormattedText(tree, text, engine) ==
  insertTags(text, sortMarkers(collectMarkers(tree), engine), 0, 0, <<>>)

\* ------------------------------------------------------------------------
\* State machine
\* ------------------------------------------------------------------------

VARIABLES
  root,   \* this.root of the tree
  prev,   \* the root as it was when the call recorded in op was made
  op,     \* the call that has just returned: [name, tag, start, end], or
          \* [name, text, engine] for getFormattedText
  ret,    \* what that call returned (FALSE for a call that returns nothing)
  calls   \* the number of addTag and removeTag calls made so far

vars == <<root, prev, op, ret, calls>>

NoCall == [name |-> "none", tag |-> NullTag, start |-> 0, end |-> 0]

Call(name, tag, start, end) == [name |-> name, tag |-> tag, start |-> start, end |-> end]

\* new TaggedIntervalTree(0, DocLen)
Init ==
  /\ root = IntervalNode(0, DocLen, NullTag)
  /\ prev = IntervalNode(0, DocLen, NullTag)
  /\ op = NoCall
  /\ ret = FALSE
  /\ calls = 0

\* The caller calls tree.addTag(tag, [start, end]).
AddTag ==
  /\ op = NoCall
  /\ calls < MaxCalls
  /\ \E tag \in Tags, interval \in Intervals :
       /\ root' = addTag(root, tag, interval[1], interval[2])
       /\ prev' = root
       /\ op' = Call("addTag", tag, interval[1], interval[2])
       /\ ret' = FALSE
       /\ calls' = calls + 1

\* The caller has looked at the outcome of the call and goes on to the next one.
Continue ==
  /\ op # NoCall
  /\ root' = root
  /\ prev' = root
  /\ op' = NoCall
  /\ ret' = FALSE
  /\ calls' = calls

\* The caller calls tree.removeTag(tag, [start, end]).
RemoveTag ==
  /\ op = NoCall
  /\ calls < MaxCalls
  /\ \E tag \in Tags, interval \in Intervals :
       LET result == removeTag(root, tag, interval[1], interval[2])
       IN /\ root' = result.root
          /\ prev' = root
          /\ op' = Call("removeTag", tag, interval[1], interval[2])
          /\ ret' = result.removed
          /\ calls' = calls + 1

\* The caller calls tree.hasTag(tag, [start, end]).
HasTag ==
  /\ op = NoCall
  /\ \E tag \in Tags, interval \in Intervals :
       /\ root' = root
       /\ prev' = root
       /\ op' = Call("hasTag", tag, interval[1], interval[2])
       /\ ret' = hasTag(root, tag, interval[1], interval[2])
       /\ calls' = calls

FormatCall(text, engine) == [name |-> "getFormattedText", text |-> text, engine |-> engine]

\* A faulty variant of GetFormattedText: the tree is normalised before it is
\* rendered.
GetFormattedTextNormalises ==
  /\ op = NoCall
  /\ \E text \in Texts, engine \in SortEngines :
       /\ root' = ensureTreeProperties(root)
       /\ prev' = root
       /\ op' = FormatCall(text, engine)
       /\ ret' = getFormattedText(ensureTreeProperties(root), text, engine)
       /\ calls' = calls

\* The caller calls tree.getFormattedText(text), on some engine.
GetFormattedText ==
  /\ op = NoCall
  /\ \E text \in Texts, engine \in SortEngines :
       /\ root' = root
       /\ prev' = root
       /\ op' = FormatCall(text, engine)
       /\ ret' = getFormattedText(root, text, engine)
       /\ calls' = calls

Next == AddTag \/ RemoveTag \/ HasTag \/ GetFormattedText \/ Continue

Spec == Init /\ [][Next]_vars

\* ------------------------------------------------------------------------
\* The tree with the buffer that grows
\* ------------------------------------------------------------------------

\* new TaggedIntervalTree(0, editor.value.length), for a buffer that is one
\* character shorter than DocLen.
InitShort ==
  /\ root = IntervalNode(0, DocLen - 1, NullTag)
  /\ prev = IntervalNode(0, DocLen - 1, NullTag)
  /\ op = NoCall
  /\ ret = FALSE
  /\ calls = 0

InputEvent(length) == [name |-> "input", length |-> length]

\* The 'input' listener of the editor: the buffer now has the given length,
\* and the root is widened when the buffer is longer than the root.
Input ==
  /\ op = NoCall
  /\ \E length \in 0 .. DocLen :
       /\ root' = IF length > root.interval[2]
                  THEN [root EXCEPT !.interval[2] = length]
                  ELSE root
       /\ prev' = root
       /\ op' = InputEvent(length)
       /\ ret' = FALSE
       /\ calls' = calls

NextGrow == AddTag \/ RemoveTag \/ Input \/ Continue

SpecGrow == InitShort /\ [][NextGrow]_vars

\* ------------------------------------------------------------------------
\* The editor page: addTag with _tryMergeWithNeighbors
\* ------------------------------------------------------------------------

\* The while loop of _findInsertionPoint; left, right and the result are
\* 0-based indices.
RECURSIVE findInsertionPointLoop(_, _, _, _)
findInsertionPointLoop(children, start, left, right) ==
  IF ~(left <= right) THEN left
  ELSE LET mid == (left + right) \div 2
       IN IF children[mid + 1].interval[1] = start THEN mid
          ELSE IF children[mid + 1].interval[1] < start
          THEN findInsertionPointLoop(children, start, mid + 1, right)
          ELSE findInsertionPointLoop(children, start, left, mid - 1)

\* _findInsertionPoint(children, start): a binary search on the starts.
findInsertionPoint(children, start) ==
  IF Len(children) = 0 THEN 0
  ELSE findInsertionPointLoop(children, start, 0, Len(children) - 1)

\* _tryMergeWithNeighbors(node, newStart, newEnd, tag): the node after the
\* call and the value returned.
tryMergeWithNeighbors(node, newStart, newEnd, tag) ==
  IF Len(node.children) = 0 THEN [node |-> node, merged |-> FALSE]
  ELSE
    LET index == findInsertionPoint(node.children, newStart)
        hasLeft == index > 0
        leftNeighbor == node.children[index]
        hasRight == index < Len(node.children)
        rightNeighbor == node.children[index + 1]
    IN IF hasLeft /\ leftNeighbor.tag = tag /\ leftNeighbor.interval[2] >= newStart
       THEN
         LET extended == [leftNeighbor EXCEPT !.interval[2] = Max(@, newEnd)]
         IN IF /\ hasRight
               /\ rightNeighbor.tag = tag
               /\ extended.interval[2] >= rightNeighbor.interval[1]
            THEN [node |-> [node EXCEPT !.children =
                              Splice([node.children EXCEPT ![index] =
                                        [extended EXCEPT
                                           !.interval[2] = Max(@, rightNeighbor.interval[2]),
                                           !.children = @ \o rightNeighbor.children]],
                                     index, 1, <<>>)],
                  merged |-> TRUE]
            ELSE [node |-> [node EXCEPT !.children[index] = extended],
                  merged |-> TRUE]
       ELSE IF hasRight /\ rightNeighbor.tag = tag /\ newEnd >= rightNeighbor.interval[1]
       THEN [node |-> [node EXCEPT !.children[index + 1].interval[1] = Min(@, newStart)],
             merged |-> TRUE]
       ELSE [node |-> node, merged |-> FALSE]

RECURSIVE editorAddTagDFS(_, _, _, _)
RECURSIVE editorChildLoop(_, _, _, _, _, _)
RECURSIVE editorInsertNewNodes(_, _, _, _)

\* The while loop of the editor's _addTagDFS over node.children; the state of
\* the loop is the children (a child is changed in place by the recursive
\* call), the index i, currentPos and the insertPoints collected so far.
editorChildLoop(children, i, currentPos, insertPoints, tag, end) ==
  IF ~(i < Len(children) /\ currentPos < end)
  THEN [children |-> children, currentPos |-> currentPos, insertPoints |-> insertPoints]
  ELSE
    LET child == children[i + 1]
        overlaps == currentPos < child.interval[2]
        child2 == IF overlaps THEN editorAddTagDFS(child, tag, currentPos, end) ELSE child
        pos1 == IF overlaps THEN child2.interval[2] ELSE currentPos
        hasNext == i + 1 < Len(children)
        gap == pos1 < end /\ hasNext /\ pos1 < children[i + 2].interval[1]
        points1 == IF gap
                   THEN Append(insertPoints,
                               [index |-> i + 1, start |-> pos1,
                                end |-> Min(end, children[i + 2].interval[1])])
                   ELSE insertPoints
        pos2 == IF gap THEN Min(end, children[i + 2].interval[1]) ELSE pos1
    IN editorChildLoop([children EXCEPT ![i + 1] = child2], i + 1, pos2, points1, tag, end)

\* The reverse loop over the insert points: a point is merged into a
\* neighbour with the tag, or gets a new node; k is the 1-based position of
\* the insert point handled next.
editorInsertNewNodes(node, insertPoints, k, tag) ==
  IF k < 1 THEN node
  ELSE
    LET point == insertPoints[k]
        try == tryMergeWithNeighbors(node, point.start, point.end, tag)
    IN editorInsertNewNodes(
         IF try.merged THEN try.node
         ELSE [node EXCEPT !.children =
                 Splice(node.children, point.index, 0,
                        <<IntervalNode(point.start, point.end, tag)>>)],
         insertPoints, k - 1, tag)

\* The editor's _addTagDFS(node, tag, start, end): the node after the call.
editorAddTagDFS(node, tag, start0, end0) ==
  LET start == Max(start0, node.interval[1])
      end == Min(end0, node.interval[2])
      try == tryMergeWithNeighbors(node, start, end, tag)
  IN
  IF start >= end THEN node
  ELSE IF node.tag = tag THEN node
  ELSE IF Len(node.children) = 0
  THEN [node EXCEPT !.children = <<IntervalNode(start, end, tag)>>]
  ELSE IF try.merged THEN try.node
  ELSE
    LET found == findInsertionPoint(node.children, start)
        i0 == IF found > 0 /\ node.children[found].interval[2] > start
              THEN found - 1 ELSE found
        before == i0 < Len(node.children) /\ start < node.children[i0 + 1].interval[1]
        points0 == IF before
                   THEN <<[index |-> i0, start |-> start,
                           end |-> Min(end, node.children[i0 + 1].interval[1])]>>
                   ELSE <<>>
        pos0 == IF before THEN Min(end, node.children[i0 + 1].interval[1]) ELSE start
        loop == editorChildLoop(node.children, i0, pos0, points0, tag, end)
        points == IF loop.currentPos < end
                  THEN Append(loop.insertPoints,
                              [index |-> Len(node.children),
                               start |-> loop.currentPos, end |-> end])
                  ELSE loop.insertPoints
    IN editorInsertNewNodes([node EXCEPT !.children = loop.children],
                            points, Len(points), tag)

\* The tree after the editor's tree.addTag(tag, [start, end]): no
\* normalisation follows the call of _addTagDFS.
editorAddTag(tree, tag, start, end) ==
  IF start >= end THEN tree
  ELSE editorAddTagDFS(tree, tag, start, end)

\* The selections of the text area: 0 <= selectionStart <= selectionEnd, and
\* the end is within the text, which is never longer than the root.
Selections(length) == {sel \in (0 .. length) \X (0 .. length) : sel[1] <= sel[2]}

\* toggleTag(tag) with the page in add mode: an empty selection shows a
\* message and leaves the tree alone, any other is handed to tree.addTag.
ToggleTag ==
  /\ op = NoCall
  /\ calls < MaxCalls
  /\ \E tag \in Tags, sel \in Selections(root.interval[2]) :
       /\ root' = IF sel[1] = sel[2] THEN root
                  ELSE editorAddTag(root, tag, sel[1], sel[2])
       /\ prev' = root
       /\ op' = Call("toggleTag", tag, sel[1], sel[2])
       /\ ret' = FALSE
       /\ calls' = calls + 1

NextEditor == ToggleTag \/ Input \/ Continue

SpecEditor == InitShort /\ [][NextEditor]_vars

\* ------------------------------------------------------------------------
\* Vocabulary of the properties
\* ------------------------------------------------------------------------

RECURSIVE Descendants(_)
\* Every node below the given node, at any depth.
Descendants(node) ==
  UNION {{node.children[k]} \cup Descendants(node.children[k]) :
           k \in 1 .. Len(node.children)}

\* Every node of the tree, the root included.
NodesOf(tree) == {tree} \cup Descendants(tree)

\* The positions p (standing for the character [p, p+1)) of a half-open range.
Range(start, end) == start .. (end - 1)

\* The positions covered by some node of the tree that carries the tag.
Covered(tree, tag) ==
  UNION {Range(n.interval[1], n.interval[2]) : n \in {m \in Descendants(tree) : m.tag = tag}}

RECURSIVE NodeCount(_)
\* The number of nodes below the given node.
NodeCount(node) ==
  IF node.children = <<>> THEN 0
  ELSE LET first == node.children[1]
       IN 1 + NodeCount(first) + NodeCount([node EXCEPT !.children = Tail(@)])

\* The nodes of the tree that carry the tag and are not children of the root.
NestedWithTag(tree, tag) ==
  {n \in UNION {Descendants(tree.children[k]) : k \in 1 .. Len(tree.children)} :
     n.tag = tag}

AfterCall(name) == op.name = name

\* ------------------------------------------------------------------------
\* Structural invariants
\* ------------------------------------------------------------------------

\* C1: after every addTag or removeTag call, consecutive children c[i], c[i+1]
\* of every node satisfy c[i].end <= c[i+1].start.
NonOverlapping ==
  \A n \in NodesOf(root) :
    \A k \in 1 .. (Len(n.children) - 1) :
      n.children[k].interval[2] <= n.children[k + 1].interval[1]

\* C2: after every call, every non-root node has start < end.
NonEmptyRange ==
  \A n \in Descendants(root) : n.interval[1] < n.interval[2]

\* C3: after every call, no node has two children with the same tag whose
\* ranges touch or overlap.
Merged ==
  \A n \in NodesOf(root) :
    \A j, k \in 1 .. Len(n.children) :
      (j < k /\ n.children[j].tag = n.children[k].tag)
        => n.children[j].interval[2] < n.children[k].interval[1]

\* C4: after every call, the children of every node are ordered by
\* non-decreasing start.
Sorted ==
  \A n \in NodesOf(root) :
    \A k \in 1 .. (Len(n.children) - 1) :
      n.children[k].interval[1] <= n.children[k + 1].interval[1]

\* C5: after every call, every child lies inside its parent's range.
Inside ==
  \A n \in NodesOf(root) :
    \A k \in 1 .. Len(n.children) :
      /\ n.interval[1] <= n.children[k].interval[1]
      /\ n.children[k].interval[2] <= n.interval[2]

\* C6: after every call, no child carries its parent's tag; addTag(t, r) with
\* r inside an existing t node adds no node.
TagExclusive ==
  /\ \A n \in NodesOf(root) :
       \A k \in 1 .. Len(n.children) : n.children[k].tag # n.tag
  /\ (/\ AfterCall("addTag")
      /\ op.start < op.end
      /\ \E n \in Descendants(prev) :
           /\ n.tag = op.tag
           /\ n.interval[1] <= op.start
           /\ op.end <= n.interval[2])
       => NodeCount(root) <= NodeCount(prev)

\* ------------------------------------------------------------------------
\* Effect of removeTag and addTag
\* ------------------------------------------------------------------------

\* C7: removeTag(t, r) leaves the positions covered by every other tag as they
\* were.
RemoveKeepsOtherTags ==
  AfterCall("removeTag") =>
    \A other \in Tags \ {op.tag} : Covered(root, other) = Covered(prev, other)

\* C8: after removeTag(t, [s,e)) with s < e no position of [s,e) is covered by
\* t, and every position outside [s,e) that t covered is still covered by t.
RemoveExactlyRequested ==
  (AfterCall("removeTag") /\ op.start < op.end) =>
    /\ Covered(root, op.tag) \cap Range(op.start, op.end) = {}
    /\ Covered(prev, op.tag) \ Range(op.start, op.end) \subseteq Covered(root, op.tag)

\* C9: after addTag(t, [s,e)) with s < e every position of [s,e) inside the
\* root is covered by t, and no position outside [s,e) is newly covered by t.
AddCoversRequested ==
  (AfterCall("addTag") /\ op.start < op.end) =>
    /\ Range(op.start, op.end) \cap Range(prev.interval[1], prev.interval[2])
         \subseteq Covered(root, op.tag)
    /\ Covered(root, op.tag) \ Range(op.start, op.end) \subseteq Covered(prev, op.tag)

\* Some node of the tree carries the tag and intersects [start, end) clamped to
\* the root.
TagPresent(tree, tag, start, end) ==
  \E n \in Descendants(tree) :
    /\ n.tag = tag
    /\ Max(n.interval[1], Max(start, tree.interval[1]))
         < Min(n.interval[2], Min(end, tree.interval[2]))

\* C10: removeTag(t, [s,e)) returns true exactly when, before the call, some
\* node tagged t had a range intersecting [s,e) clamped to the root.
RemoveReturnsPresence ==
  AfterCall("removeTag") => (ret <=> TagPresent(prev, op.tag, op.start, op.end))

\* ------------------------------------------------------------------------
\* Calls that have nothing to do
\* ------------------------------------------------------------------------

\* C11: whenever removeTag returns false (start >= end, a range outside the
\* root, or a tag absent from the range), the tree after the call is the tree
\* before it.
RemoveFalseKeepsTree ==
  (AfterCall("removeTag") /\ ~ret) => root = prev

\* C12: addTag(t, [s,e)) with s >= e, or with [s,e) not intersecting the
\* root's range, leaves the tree as it was.
AddOutsideKeepsTree ==
  (/\ AfterCall("addTag")
   /\ \/ op.start >= op.end
      \/ op.end <= prev.interval[1]
      \/ op.start >= prev.interval[2])
    => root = prev

\* ------------------------------------------------------------------------
\* hasTag after addTag, repeated and undone addTag
\* ------------------------------------------------------------------------

\* C13: immediately after addTag(t, [a,b)) with [a,b) inside the root,
\* hasTag(t, [c,d)) is true for every a <= c < d <= b, also when other tags
\* occupy part of [a,b).
Containment ==
  (/\ AfterCall("addTag")
   /\ op.start < op.end
   /\ prev.interval[1] <= op.start
   /\ op.end <= prev.interval[2])
    => \A c, d \in op.start .. op.end : c < d => hasTag(root, op.tag, c, d)

\* Some node of the tree carries the tag, starts at or before start and ends
\* at or after end.
CoveringNode(tree, tag, start, end) ==
  \E n \in NodesOf(tree) :
    n.tag = tag /\ n.interval[1] <= start /\ n.interval[2] >= end

\* C14: hasTag(t, [s,e)) returns true exactly when some node tagged t has
\* node.start <= s and node.end >= e, for every pair of integers s, e.
HasTagIffCoveringNode ==
  AfterCall("hasTag") => (ret <=> CoveringNode(prev, op.tag, op.start, op.end))

\* C14, amended: hasTag(t, [s,e)) returns true exactly when some node tagged t
\* has node.start <= s and node.end >= e, for every pair of integers s < e.
HasTagIffCoveringNodeOfRange ==
  (AfterCall("hasTag") /\ op.start < op.end)
    => (ret <=> CoveringNode(prev, op.tag, op.start, op.end))

\* C15: a second addTag(t, r) right after addTag(t, r) leaves the tree that
\* the first one left.
AddIdempotent ==
  AfterCall("addTag") => addTag(root, op.tag, op.start, op.end) = root

\* C16: when t covers no position of a valid range r that intersects the
\* root, addTag(t, r) followed by removeTag(t, r) returns true and leaves the
\* tree that was there before the addTag.
AddThenRemoveCancels ==
  (/\ AfterCall("addTag")
   /\ op.start < op.end
   /\ Range(op.start, op.end) \cap Range(prev.interval[1], prev.interval[2]) # {}
   /\ Covered(prev, op.tag) \cap Range(op.start, op.end) = {})
    => removeTag(root, op.tag, op.start, op.end) = [root |-> prev, removed |-> TRUE]

\* ------------------------------------------------------------------------
\* getFormattedText
\* ------------------------------------------------------------------------

OpeningTexts == {MarkerText(Marker(0, tag, TRUE)) : tag \in Tags}

ClosingTexts == {MarkerText(Marker(0, tag, FALSE)) : tag \in Tags}

IsMarkerText(x) == x \in OpeningTexts \cup ClosingTexts

IsCharacter(x) == ~IsMarkerText(x)

\* The tag named by the text of a marker.
TagOf(x) ==
  CHOOSE tag \in Tags :
    x \in {MarkerText(Marker(0, tag, TRUE)), MarkerText(Marker(0, tag, FALSE))}

RECURSIVE Nested(_, _, _)
\* From element i of the result on, every closing marker closes the most
\* recently opened marker that is still open; open holds the tags still open,
\* the most recent first.
Nested(result, i, open) ==
  IF i > Len(result) THEN TRUE
  ELSE IF result[i] \in OpeningTexts
  THEN Nested(result, i + 1, <<TagOf(result[i])>> \o open)
  ELSE IF result[i] \in ClosingTexts
  THEN /\ open # <<>>
       /\ Head(open) = TagOf(result[i])
       /\ Nested(result, i + 1, Tail(open))
  ELSE Nested(result, i + 1, open)

\* C17: for every tree that satisfies the invariants 1-5 (C1, C3, C4, C5, C6)
\* the output of getFormattedText is properly nested: every closing marker
\* closes the most recently opened marker that is still open.
ProperlyNested ==
  (/\ AfterCall("getFormattedText")
   /\ NonOverlapping /\ Merged /\ Sorted /\ Inside /\ TagExclusive)
    => Nested(ret, 1, <<>>)

\* C18: the markers are emitted in non-decreasing order of position, and at
\* one position every closing marker is emitted before every opening marker.
MarkersOrdered ==
  AfterCall("getFormattedText") =>
    LET markers == sortMarkers(collectMarkers(prev), op.engine)
    IN /\ \A i, j \in 1 .. Len(markers) :
            i < j => /\ markers[i].position <= markers[j].position
                     /\ markers[i].position = markers[j].position
                          => ~(markers[i].isOpening /\ ~markers[j].isOpening)
       /\ SelectSeq(ret, IsMarkerText)
            = [k \in 1 .. Len(markers) |-> MarkerText(markers[k])]

RECURSIVE TaggedCount(_, _)
\* The number of nodes below the given node that carry the tag.
TaggedCount(node, tag) ==
  IF node.children = <<>> THEN 0
  ELSE LET first == node.children[1]
       IN (IF first.tag = tag THEN 1 ELSE 0) + TaggedCount(first, tag)
            + TaggedCount([node EXCEPT !.children = Tail(@)], tag)

\* The number of elements of the result that are x.
Count(result, x) == Cardinality({k \in 1 .. Len(result) : result[k] = x})

\* C19: the output of getFormattedText without its markers is the text it was
\* given, also when the text is shorter than the root's range, and the output
\* has one opening and one closing marker per tagged node.
TextPreserved ==
  AfterCall("getFormattedText") =>
    /\ SelectSeq(ret, IsCharacter) = op.text
    /\ \A tag \in Tags :
         /\ Count(ret, MarkerText(Marker(0, tag, TRUE))) = TaggedCount(prev, tag)
         /\ Count(ret, MarkerText(Marker(0, tag, FALSE))) = TaggedCount(prev, tag)

\* C20: hasTag and getFormattedText leave the tree as it was.
QueriesKeepTree ==
  (AfterCall("hasTag") \/ AfterCall("getFormattedText")) => root = prev

\* ------------------------------------------------------------------------
\* The root
\* ------------------------------------------------------------------------

\* C21: addTag and removeTag never replace or alter the root: it keeps the tag
\* null and the range it had before the call; only the input listener changes
\* the range, and only by increasing its end.
RootKept ==
  /\ root.tag = NullTag
  /\ root.interval[1] = prev.interval[1]
  /\ (AfterCall("addTag") \/ AfterCall("removeTag")) => root.interval = prev.interval
  /\ root.interval[2] >= prev.interval[2]

\* ------------------------------------------------------------------------
\* The cases of removeTag
\* ------------------------------------------------------------------------

\* The node carries the tag and [start, end) covers its whole range.
FullyCovered(n, tag, start, end) ==
  n.tag = tag /\ start <= n.interval[1] /\ n.interval[2] <= end

RECURSIVE Rehooked(_, _, _, _)
RECURSIVE RehookedList(_, _, _, _)

\* The child list in which every fully covered node is replaced by its own
\* children, in their order.
RehookedList(children, tag, start, end) ==
  IF children = <<>> THEN <<>>
  ELSE LET first == Rehooked(Head(children), tag, start, end)
       IN (IF FullyCovered(first, tag, start, end) THEN first.children ELSE <<first>>)
            \o RehookedList(Tail(children), tag, start, end)

\* The tree in which every fully covered node is replaced, in the child list
\* of its parent, by its own children; nothing else is changed.
Rehooked(node, tag, start, end) ==
  [node EXCEPT !.children = RehookedList(node.children, tag, start, end)]

\* The call was a removeTag that fully covers some node carrying the tag and
\* cuts no node carrying the tag partly.
OnlyFullCover ==
  /\ AfterCall("removeTag")
  /\ \E n \in Descendants(prev) :
       FullyCovered(n, op.tag, op.start, op.end) /\ n.interval[1] < n.interval[2]
  /\ \A n \in Descendants(prev) :
       n.tag = op.tag =>
         \/ Range(n.interval[1], n.interval[2]) \cap Range(op.start, op.end) = {}
         \/ FullyCovered(n, op.tag, op.start, op.end)

HasChildLike(p, c) ==
  \E k \in 1 .. Len(p.children) :
    p.children[k].tag = c.tag /\ p.children[k].interval = c.interval

\* Some node of the tree has, among its children and in this order, a node
\* with the removed tag over [n.start, op.start) and one over [op.end, n.end);
\* the first has every child of n that lies in its range, and so has the
\* second.
SplitOf(n) ==
  \E q \in NodesOf(root) :
    \E i, j \in 1 .. Len(q.children) :
      LET pre == q.children[i]
          post == q.children[j]
      IN /\ i < j
         /\ pre.tag = op.tag /\ pre.interval = <<n.interval[1], op.start>>
         /\ post.tag = op.tag /\ post.interval = <<op.end, n.interval[2]>>
         /\ \A k \in 1 .. Len(n.children) :
              LET c == n.children[k]
              IN /\ c.interval[2] <= op.start => HasChildLike(pre, c)
                 /\ c.interval[1] >= op.end => HasChildLike(post, c)

\* C23: when removeTag(t, [s,e)) lies strictly inside a node n tagged t with
\* range [a,b), n is replaced in the child list of its parent by a t node
\* [a,s) and a t node [e,b); the children of n that lie in [a,s) are children
\* of the first, those that lie in [e,b) of the second; the call returns true.
InsideRemovalSplits ==
  AfterCall("removeTag") =>
    \A n \in Descendants(prev) :
      (/\ n.tag = op.tag
       /\ n.interval[1] < op.start
       /\ op.start < op.end
       /\ op.end < n.interval[2])
        => (ret /\ SplitOf(n))

\* Some node of the tree has the removed tag and the given range, and has
\* every child of n that lies in that range.
ShrunkOf(n, interval) ==
  \E m \in Descendants(root) :
    /\ m.tag = op.tag
    /\ m.interval = interval
    /\ \A k \in 1 .. Len(n.children) :
         LET c == n.children[k]
         IN (interval[1] <= c.interval[1] /\ c.interval[2] <= interval[2])
              => HasChildLike(m, c)

\* C24: when removeTag(t, [s,e)) covers the start of a node n tagged t with
\* range [a,b) and ends inside it, n stays with the range [e,b); when it
\* starts inside n and covers its end, n stays with the range [a,s).  The
\* children of n that lie in the surviving range remain children of n with
\* their ranges, and the call returns true.
PartialRemovalShrinks ==
  AfterCall("removeTag") =>
    \A n \in Descendants(prev) :
      n.tag = op.tag =>
        /\ (op.start <= n.interval[1] /\ n.interval[1] < op.end /\ op.end < n.interval[2])
             => (ret /\ ShrunkOf(n, <<op.end, n.interval[2]>>))
        /\ (n.interval[1] < op.start /\ op.start < n.interval[2] /\ n.interval[2] <= op.end)
             => (ret /\ ShrunkOf(n, <<n.interval[1], op.start>>))

\* ------------------------------------------------------------------------
\* The partition of addTag
\* ------------------------------------------------------------------------

\* The positions of the requested interval, inside the root, that no child of
\* the root covered before the call.
GapPositions ==
  (Range(op.start, op.end) \cap Range(prev.interval[1], prev.interval[2]))
    \ UNION {Range(prev.children[k].interval[1], prev.children[k].interval[2]) :
               k \in 1 .. Len(prev.children)}

\* The maximal gaps <<g1, g2>> of the requested interval.
Gaps ==
  {g \in Positions \X Positions :
     /\ g[1] < g[2]
     /\ Range(g[1], g[2]) \subseteq GapPositions
     /\ (g[1] - 1) \notin GapPositions
     /\ g[2] \notin GapPositions}

\* The children of `after` are the children the root had, each with its tag
\* and range, plus one child with the added tag per maximal gap; a child with
\* another tag has gained the added tag on its part of the requested interval
\* and nowhere else.
Partitioned(after) ==
  /\ Len(after.children) = Len(prev.children) + Cardinality(Gaps)
  /\ \A g \in Gaps :
       HasChildLike(after, [tag |-> op.tag, interval |-> g])
  /\ \A k \in 1 .. Len(prev.children) :
       LET c == prev.children[k]
       IN \E j \in 1 .. Len(after.children) :
            LET d == after.children[j]
            IN /\ d.tag = c.tag
               /\ d.interval = c.interval
               /\ c.tag # op.tag =>
                    Covered(d, op.tag) \ Covered(c, op.tag)
                      = (Range(c.interval[1], c.interval[2])
                           \cap Range(op.start, op.end)) \ Covered(c, op.tag)

\* C25: at a root with children, the tree that _addTagDFS(t, [s,e)) leaves
\* (before the normalisation merges touching nodes) has one new t child per
\* maximal gap of [s,e) that no child covered, every former child still a
\* child of the root with its own range, and t added beneath each overlapped
\* child with another tag for the intersection only.
AddPartitions ==
  (AfterCall("addTag") /\ op.start < op.end /\ prev.children # <<>>)
    => Partitioned(addTagDFS(prev, op.tag, op.start, op.end))

\* C26: addTag(t, r) leaves the set of positions covered by every other tag
\* as it was before the call.
AddKeepsOtherTags ==
  AfterCall("addTag") =>
    \A other \in Tags \ {op.tag} : Covered(root, other) = Covered(prev, other)

\* The number of nodes on the longest path from a child of the node down to a
\* leaf.
RECURSIVE Depth(_)
Depth(node) ==
  IF node.children = <<>> THEN 0
  ELSE LET depths == {Depth(node.children[k]) : k \in 1 .. Len(node.children)}
       IN 1 + CHOOSE d \in depths : \A other \in depths : other <= d

\* The labels carried by the nodes of the tree below the root; each of them
\* has been applied by an addTag call.
LabelsIn(tree) == {n.tag : n \in Descendants(tree)}

\* C27: no node has a descendant, at any distance, with the node's own tag;
\* the nesting depth of the tree is at most the number of distinct labels in
\* the tree, hence at most the number of labels that have been applied.
NoSameTagAncestor ==
  /\ \A n \in NodesOf(root) : \A d \in Descendants(n) : d.tag # n.tag
  /\ Depth(root) <= Cardinality(LabelsIn(root))

\* ------------------------------------------------------------------------
\* The remaining interval
\* ------------------------------------------------------------------------

\* C28: whenever a node re-applies the removal to the remaining interval that
\* a child reported, that interval lies in the interval the node was called
\* with and is strictly shorter; a child that reports REMOVE-INTERVAL-INSIDE
\* reports an empty remaining interval.
RemainingShrinks ==
  (AfterCall("removeTag") /\ op.start < op.end) =>
    \A report \in childReports(prev, op.tag, op.start, op.end) :
      LET remaining == report.remainingInterval
      IN /\ remaining[1] < remaining[2] =>
              /\ report.start <= remaining[1]
              /\ remaining[2] <= report.end
              /\ remaining[2] - remaining[1] < report.end - report.start
         /\ report.state = "REMOVE-INTERVAL-INSIDE" => remaining[1] >= remaining[2]

\* ------------------------------------------------------------------------
\* The rehook list
\* ------------------------------------------------------------------------

\* The list is sorted by start, an entry ends where the next one starts or
\* before, and two entries that follow each other with the same tag do not
\* touch.
CleanList(list) ==
  \A k \in 1 .. (Len(list) - 1) :
    /\ list[k].interval[1] <= list[k + 1].interval[1]
    /\ list[k].interval[2] <= list[k + 1].interval[1]
    /\ list[k].tag = list[k + 1].tag => list[k].interval[2] < list[k + 1].interval[1]

\* C29: every rehook list that a child reports with the state
\* REMOVE-INTERVAL-INSIDE or REMOVE-ENTIRE-NODE is sorted by start, its
\* entries do not overlap, and no two consecutive entries with the same tag
\* touch or overlap.
RehookListClean ==
  (AfterCall("removeTag") /\ op.start < op.end) =>
    \A report \in childReports(prev, op.tag, op.start, op.end) :
      report.state \in {"REMOVE-INTERVAL-INSIDE", "REMOVE-ENTIRE-NODE"}
        => CleanList(report.rehookNodeList)

\* ------------------------------------------------------------------------
\* The editor page
\* ------------------------------------------------------------------------

\* C30: in the editor page, after every addTag the children of each node are
\* pairwise non-overlapping: of two children of one node, one ends where the
\* other starts or before.
EditorNonOverlapping ==
  (AfterCall("toggleTag") /\ op.start < op.end) =>
    \A n \in NodesOf(root) :
      \A j, k \in 1 .. Len(n.children) :
        j # k => \/ n.children[j].interval[2] <= n.children[k].interval[1]
                 \/ n.children[k].interval[2] <= n.children[j].interval[1]

\* ------------------------------------------------------------------------
\* Reachable cases of the properties that hold
\* ------------------------------------------------------------------------

\* C4: a removal has split a node that had children, and some node is left with
\* three or more children.
SortedWitness ==
  /\ AfterCall("removeTag")
  /\ ret
  /\ \E n \in Descendants(prev) :
       /\ n.tag = op.tag
       /\ n.children # <<>>
       /\ n.interval[1] < op.start
       /\ op.end < n.interval[2]
  /\ \E n \in NodesOf(root) : Len(n.children) >= 3

\* C5: a partial removal has moved the start of a node that has grandchildren.
InsideWitness ==
  /\ AfterCall("removeTag")
  /\ ret
  /\ \E n \in Descendants(prev) :
       /\ n.tag = op.tag
       /\ op.start <= n.interval[1]
       /\ n.interval[1] < op.end
       /\ op.end < n.interval[2]
       /\ \E k \in 1 .. Len(n.children) : n.children[k].children # <<>>
  /\ \E n \in Descendants(root) :
       /\ n.tag = op.tag
       /\ n.interval[1] = op.end
       /\ \E k \in 1 .. Len(n.children) : n.children[k].children # <<>>

\* C8: a removal has taken a part of the tag away from two separate nodes, one
\* of them nested, and has left another part of the tag.
RemoveExactlyRequestedWitness ==
  /\ AfterCall("removeTag")
  /\ op.start < op.end
  /\ \E m, n \in Descendants(prev) :
       /\ m # n
       /\ m.tag = op.tag
       /\ n.tag = op.tag
       /\ n \in NestedWithTag(prev, op.tag)
       /\ Range(m.interval[1], m.interval[2]) \cap Range(op.start, op.end) # {}
       /\ Range(n.interval[1], n.interval[2]) \cap Range(op.start, op.end) # {}
  /\ Covered(prev, op.tag) \ Range(op.start, op.end) # {}
  /\ Covered(root, op.tag) # {}

\* C9: an addTag reaching beyond the end of the root has added the tag next to
\* a node of the same tag, across a gap, and below a node of another tag.
AddCoversRequestedWitness ==
  /\ AfterCall("addTag")
  /\ op.start < op.end
  /\ op.end > prev.interval[2]
  /\ Covered(prev, op.tag) # {}
  /\ Covered(root, op.tag) # Covered(prev, op.tag)
  /\ NestedWithTag(root, op.tag) # {}
  /\ \E p \in Range(0, DocLen) \ Covered(root, op.tag) :
       /\ \E q \in Covered(root, op.tag) : q < p
       /\ \E q \in Covered(root, op.tag) : q > p

\* C10: a removal has returned true for a tag that was present only in nested
\* nodes.
RemoveReturnsPresenceWitness ==
  /\ AfterCall("removeTag")
  /\ ret
  /\ NestedWithTag(prev, op.tag) # {}
  /\ \A k \in 1 .. Len(prev.children) : prev.children[k].tag # op.tag

\* C14: hasTag has returned true for a range covered by a nested node only, and
\* the range is not the node's whole range.
HasTagIffCoveringNodeOfRangeWitness ==
  /\ AfterCall("hasTag")
  /\ op.start < op.end
  /\ ret
  /\ \A k \in 1 .. Len(prev.children) : prev.children[k].tag # op.tag
  /\ \E n \in NestedWithTag(prev, op.tag) :
       /\ n.interval[1] <= op.start
       /\ op.end < n.interval[2]

\* C15: an addTag has changed a tree that had the tag already, and has left
\* the tag on a nested node.
AddIdempotentWitness ==
  /\ AfterCall("addTag")
  /\ root # prev
  /\ Covered(prev, op.tag) # {}
  /\ NestedWithTag(root, op.tag) # {}

\* C18: the tree rendered has a node that ends where its sibling starts and a
\* node that starts where its parent starts.
MarkersOrderedWitness ==
  /\ AfterCall("getFormattedText")
  /\ \E n \in NodesOf(prev) :
       \E k \in 1 .. (Len(n.children) - 1) :
         n.children[k].interval[2] = n.children[k + 1].interval[1]
  /\ \E n \in Descendants(prev) :
       \E k \in 1 .. Len(n.children) :
         n.children[k].interval[1] = n.interval[1]

\* C19: a text shorter than the root's range has been rendered for a tree
\* with a nested node that ends beyond the end of the text.
TextPreservedWitness ==
  /\ AfterCall("getFormattedText")
  /\ 0 < Len(op.text)
  /\ Len(op.text) < prev.interval[2]
  /\ \E tag \in Tags :
       \E n \in NestedWithTag(prev, tag) : n.interval[2] > Len(op.text)
  /\ Len(ret) > Len(op.text)

\* C20: getFormattedText has rendered a tree that has a node with an empty
\* range.
QueriesKeepTreeWitness ==
  /\ AfterCall("getFormattedText")
  /\ ~NonEmptyRange
  /\ Len(ret) > Len(op.text)

\* C21: after the root has grown, an addTag reaching beyond the end of the
\* root has changed the tree.
RootKeptWitness ==
  /\ AfterCall("addTag")
  /\ prev.interval[2] = DocLen
  /\ op.end > prev.interval[2]
  /\ root # prev

InsideRemovalSplitsWitness ==
  /\ AfterCall("removeTag")
  /\ ret
  /\ \E n \in NestedWithTag(prev, op.tag) :
       /\ n.interval[1] < op.start
       /\ op.start < op.end
       /\ op.end < n.interval[2]
       /\ \E j, k \in 1 .. Len(n.children) :
            /\ n.children[j].interval[2] <= op.start
            /\ n.children[k].interval[1] >= op.end

\* C26: an addTag call has changed a tree in which another tag covers part of
\* the requested interval and part of the requested interval was uncovered.
AddKeepsOtherTagsWitness ==
  /\ AfterCall("addTag")
  /\ root # prev
  /\ \E other \in Tags \ {op.tag} :
       /\ Covered(prev, other) \cap Range(op.start, op.end) # {}
       /\ (Range(op.start, op.end) \cap Range(0, DocLen)) \ Covered(prev, other) # {}
       /\ Covered(root, op.tag) \cap Covered(root, other) # {}

\* C27: the three labels are nested in one another, and the call just made
\* asked for a label on an interval that a node with that label covers.
NoSameTagAncestorWitness ==
  /\ AfterCall("addTag")
  /\ Depth(root) = Cardinality(Tags)
  /\ Range(op.start, op.end) \cap Covered(prev, op.tag) # {}
  /\ root # prev

\* C28: a removal has been re-applied to a remaining interval and has removed
\* the tag there, and in the same call another child was split from inside.
RemainingShrinksWitness ==
  /\ AfterCall("removeTag")
  /\ op.start < op.end
  /\ LET reports == childReports(prev, op.tag, op.start, op.end)
     IN /\ \E report \in reports :
             /\ report.remainingInterval[1] < report.remainingInterval[2]
             /\ removeTagDFS(report.node, op.tag, report.remainingInterval[1],
                             report.remainingInterval[2]).removed
        /\ \E report \in reports : report.state = "REMOVE-INTERVAL-INSIDE"

====
